---- MODULE Spec2Model ----
(***************************************************************************)
(* PixelBoard photo pipeline: upload -> store original (multer-s3) ->      *)
(* derive thumbnail (Lambda) -> persist Photo record -> activity log, and  *)
(* the owner-only delete and reprocess routes of routes/photos.js; and the  *)
(* album routes of routes/albums.js (create, add-photos, remove-photos,    *)
(* delete) over the Album collection and the Photo documents' album lists. *)
(*                                                                         *)
(* Every HTTP request is one action.  The stores (S3 bucket, Photo         *)
(* collection, activity table) are the state.  The inputs of a request are *)
(* its caller, its parameters, the reading of Date.now() it gets, and the  *)
(* store writes and remote calls that reject while it runs (FaultSets).    *)
(* Reads of the Photo collection are taken to succeed.                     *)
(***************************************************************************)
EXTENDS Integers, Sequences, FiniteSets, TLC

VARIABLES
    photos,     \* Photo collection: _id -> document
    blobs,      \* S3 bucket: key -> content
    activity,   \* DynamoDB activity table: activityId -> item
    nextKey,    \* source of fresh uuids for S3 keys
    nextId,     \* source of fresh ObjectIds
    albums,     \* Album collection: _id -> document
    nextAlbumId,\* source of fresh ObjectIds of albums
    inflight,   \* album requests between two awaits: slot -> local state
    lastReq     \* the last completed request: route, caller, response, effects

vars == <<photos, blobs, activity, nextKey, nextId, albums, nextAlbumId, inflight,
          lastReq>>

---------------------------------------------------------------------------
(* Bounds of the model *)

MaxUploads == 1     \* uploads that reach the storage engine (fresh keys)
MaxClock == 0       \* Date.now() reads 0..MaxClock
MaxFaults == 1      \* store calls that fail within one request
MaxAlbumPhotos == 3 \* photos uploaded in the album state machine
MaxAlbums == 1      \* albums created
MaxPhotoIds == 2    \* ids in the photoIds array of one album request
MaxInflight == 2    \* album requests that run at the same time
MaxRacePhotos == 2  \* photos uploaded in the state machine of overlapping requests

---------------------------------------------------------------------------
(* Values *)

Users == {"u1", "u2"}

\* JavaScript's null and undefined (an absent property reads as undefined)
Null == [js |-> "null"]
Undefined == [js |-> "undefined"]
Nullish(v) == v = Null \/ v = Undefined

Get(obj, field) == IF field \in DOMAIN obj THEN obj[field] ELSE Undefined
\* if (obj.field): the property is there (the values modelled are non-empty)
Has(obj, field) == field \in DOMAIN obj

Put(f, k, v) == [x \in (DOMAIN f) \cup {k} |-> IF x = k THEN v ELSE f[x]]
Remove(f, k) == [x \in (DOMAIN f) \ {k} |-> f[x]]
Empty == [x \in {} |-> 0]

\* the store calls that can fail
FaultKinds == {"s3Put", "s3Delete", "s3DeleteThumb", "lambdaInvoke", "lambdaFunction",
               "thumbPut", "dbSave", "dbDelete", "activityPut"}
FaultSets == {F \in SUBSET FaultKinds : Cardinality(F) <= MaxFaults}

\* Date.now() is the wall clock, in milliseconds: two requests can read the same value
Clock == 0..MaxClock

FileSizeLimit == 10 * 1024 * 1024
TitleMaxLength == 100

\* a title is a sequence of characters
LongTitle == [i \in 1..(TitleMaxLength + 1) |-> "a"]
Titles == {<<>>, <<" ">>, <<" ", "a">>, LongTitle}

RECURSIVE TrimLeft(_)
TrimLeft(s) == IF s # <<>> /\ Head(s) = " " THEN TrimLeft(Tail(s)) ELSE s
RECURSIVE TrimRight(_)
TrimRight(s) ==
    IF s # <<>> /\ s[Len(s)] = " " THEN TrimRight(SubSeq(s, 1, Len(s) - 1)) ELSE s
Trim(s) == TrimRight(TrimLeft(s))

\* the multipart file part of a request
NoFile == [field |-> "none"]
ImageFile(size, decodable) ==
    [field |-> "photo", type |-> "image", size |-> size, decodable |-> decodable]
Files == {NoFile,
          [field |-> "avatar", type |-> "image", size |-> 1, decodable |-> TRUE],
          [field |-> "photo", type |-> "text", size |-> 1, decodable |-> FALSE],
          ImageFile(FileSizeLimit, TRUE),
          ImageFile(FileSizeLimit, FALSE),
          ImageFile(FileSizeLimit + 1, TRUE)}

Ev(op, ok) == [op |-> op, ok |-> ok]

---------------------------------------------------------------------------
(* services/s3Service.js *)

\* key: `photos/${Date.now()}-${uuid}${ext}`; the uuid makes it fresh
S3Key(uuid) == [dir |-> <<"photos">>, name |-> <<uuid>>]

\* getThumbnailKey and the Lambda handler: `${directory}/thumbnails/thumb_${filename}`
ThumbnailKeyOf(originalKey) ==
    [dir |-> Append(originalKey.dir, "thumbnails"),
     name |-> <<"thumb_">> \o originalKey.name]

fileFilter(file) == file.type = "image"

\* the multer-s3 storage engine: streams the file part to the bucket under key
S3StorageHandleFile(b, key, content, faults) ==
    IF "s3Put" \in faults THEN [threw |-> TRUE, blobs |-> b]
    ELSE [threw |-> FALSE, blobs |-> Put(b, key, content)]

\* upload.single('photo'): multer with the multer-s3 storage engine.  The file
\* stream is handed to the storage engine when the part starts; the size limit
\* is met while streaming (the stream is cut at the limit), after which multer
\* removes what the engine stored.  A put that rejects does so before the limit
\* is met.
UploadSingle(b, file, uuid, faults) ==
    IF file = NoFile
    THEN [err |-> "none", file |-> NoFile, blobs |-> b, trace |-> <<>>]
    ELSE IF file.field # "photo"
    THEN [err |-> "LIMIT_UNEXPECTED_FILE", file |-> NoFile, blobs |-> b, trace |-> <<>>]
    ELSE IF ~fileFilter(file)
    THEN [err |-> "Error", file |-> NoFile, blobs |-> b, trace |-> <<>>]
    ELSE
    LET tooLarge == file.size > FileSizeLimit
        stored == S3StorageHandleFile(b, S3Key(uuid),
                      [decodable |-> file.decodable /\ ~tooLarge], faults)
    IN
    IF stored.threw
    THEN [err |-> "Error", file |-> NoFile, blobs |-> b,
          trace |-> <<Ev("s3.put", FALSE)>>]
    ELSE IF tooLarge
    THEN [err |-> "LIMIT_FILE_SIZE", file |-> NoFile,
          blobs |-> IF "s3Delete" \in faults THEN stored.blobs ELSE b,
          trace |-> <<Ev("s3.put", TRUE), Ev("s3.delete", "s3Delete" \notin faults)>>]
    ELSE [err |-> "none",
          file |-> [key |-> S3Key(uuid), size |-> file.size, type |-> file.type],
          blobs |-> stored.blobs,
          trace |-> <<Ev("s3.put", TRUE)>>]

deleteFromS3(b, key, ok) ==
    IF ok THEN [threw |-> FALSE, blobs |-> Remove(b, key)]
    ELSE [threw |-> TRUE, blobs |-> b]

---------------------------------------------------------------------------
(* lambda/imageProcessor: exports.handler *)

\* JSON.stringify: the value becomes a string, whose properties cannot be read
JsonString(v) == [json |-> v]

\* the handler catches every error and returns a 500 payload
HandlerError(message) ==
    [statusCode |-> 500,
     body |-> JsonString([success |-> FALSE, error |-> message, errorType |-> "Error"])]

\* returns the payload and the bucket afterwards
ImageProcessorHandler(b, event, faults) ==
    IF event.imageKey \notin DOMAIN b
    THEN [payload |-> HandlerError("NoSuchKey"), blobs |-> b, trace |-> <<>>]
    ELSE IF ~b[event.imageKey].decodable
    THEN [payload |-> HandlerError("unsupported image format"), blobs |-> b, trace |-> <<>>]
    ELSE IF event.options.generateThumbnail = FALSE
    THEN [payload |-> [statusCode |-> 200,
                       body |-> JsonString([success |-> TRUE,
                                            originalKey |-> event.imageKey])],
          blobs |-> b, trace |-> <<>>]
    ELSE IF "thumbPut" \in faults
    THEN [payload |-> HandlerError("upload failed"), blobs |-> b,
          trace |-> <<Ev("thumb.put", FALSE)>>]
    ELSE [payload |-> [statusCode |-> 200,
                       body |-> JsonString([success |-> TRUE,
                                            originalKey |-> event.imageKey,
                                            thumbnailKey |-> ThumbnailKeyOf(event.imageKey)])],
          blobs |-> Put(b, ThumbnailKeyOf(event.imageKey), [decodable |-> TRUE]),
          trace |-> <<Ev("thumb.put", TRUE)>>]

---------------------------------------------------------------------------
(* services/lambdaService.js: LambdaImageProcessingService.processImage *)

\* the thumbnail key processImage hands back from the parsed payload
ResultThumbnailKey(result) == Get(result, "thumbnailKey")

processImage(b, imageKey, faults) ==
    IF "lambdaInvoke" \in faults
    THEN \* lambdaClient.send rejects: caught and rethrown
         [threw |-> TRUE, thumbnailKey |-> Undefined, blobs |-> b, derived |-> FALSE,
          trace |-> <<Ev("lambda.invoke", FALSE)>>]
    ELSE LET run == IF "lambdaFunction" \in faults
                    THEN \* the function itself fails (timeout, crash)
                         [payload |-> [errorMessage |-> "Task timed out",
                                       errorType |-> "Error"],
                          blobs |-> b, trace |-> <<>>]
                    ELSE ImageProcessorHandler(b,
                             [imageKey |-> imageKey,
                              options |-> [generateThumbnail |-> TRUE]],
                             faults)
             result == run.payload
         IN IF Has(result, "errorMessage")
            THEN [threw |-> TRUE, thumbnailKey |-> Undefined, blobs |-> run.blobs,
                  derived |-> FALSE,
                  trace |-> <<Ev("lambda.invoke", TRUE)>> \o run.trace]
            ELSE [threw |-> FALSE, thumbnailKey |-> ResultThumbnailKey(result),
                  blobs |-> run.blobs,
                  derived |-> (result.statusCode = 200),
                  trace |-> <<Ev("lambda.invoke", TRUE)>> \o run.trace]

---------------------------------------------------------------------------
(* services/dynamoService.js: DynamoUserActivityService.logActivity *)

\* a logActivity that rethrows, as the other service methods do
logActivityRethrows(table, userId, act, photoId, t, faults) ==
    IF "activityPut" \in faults
    THEN [threw |-> TRUE, success |-> FALSE, table |-> table,
          trace |-> <<Ev("activity.put", FALSE)>>]
    ELSE [threw |-> FALSE, success |-> TRUE,
          table |-> Put(table, <<userId, t>>,
                        [userId |-> userId, activity |-> act, photoId |-> photoId]),
          trace |-> <<Ev("activity.put", TRUE)>>]

\* activityId = `${userId}_${Date.now()}`; PutCommand writes the item under it.
\* Errors are caught: the call never throws.
logActivity(table, userId, act, photoId, t, faults) ==
    IF "activityPut" \in faults
    THEN [threw |-> FALSE, success |-> FALSE, table |-> table,
          trace |-> <<Ev("activity.put", FALSE)>>]
    ELSE [threw |-> FALSE, success |-> TRUE,
          table |-> Put(table, <<userId, t>>,
                        [userId |-> userId, activity |-> act, photoId |-> photoId]),
          trace |-> <<Ev("activity.put", TRUE)>>]

---------------------------------------------------------------------------
(* models/Photo.js: photoSchema *)

\* a schema whose records start as processed
DefaultProcessingStatusCompleted == "completed"

DefaultProcessingStatus == "pending"

\* schema validation on save: title required (trimmed) and at most 100
\* characters, s3Key required
PhotoValid(doc) ==
    /\ Len(Trim(doc.title)) >= 1
    /\ Len(Trim(doc.title)) <= TitleMaxLength
    /\ ~Nullish(doc.s3Key)

\* a route that reads the disk-storage field req.file.filename, which multer-s3 does not set
NewPhotoFromFilename(title, file, thumbnailKey, userId) ==
    [title |-> Trim(title),
     size |-> file.size,
     s3Key |-> Get(file, "filename"),
     thumbnailS3Key |-> thumbnailKey,
     processingStatus |-> DefaultProcessingStatus,
     processingError |-> Undefined,
     uploadedBy |-> userId,
     albums |-> <<>>]

\* new Photo({...}): the schema trims the title and fills the defaults
NewPhoto(title, file, thumbnailKey, userId) ==
    [title |-> Trim(title),
     size |-> file.size,
     s3Key |-> file.key,
     thumbnailS3Key |-> thumbnailKey,
     processingStatus |-> DefaultProcessingStatus,
     processingError |-> Undefined,
     uploadedBy |-> userId,
     albums |-> <<>>]

\* photo.save(): rejects on a validation error or when the store fails
PhotoSave(coll, id, doc, faults) ==
    IF ~PhotoValid(doc)
    THEN [threw |-> TRUE, photos |-> coll, trace |-> <<Ev("photo.validate", FALSE)>>]
    ELSE IF "dbSave" \in faults
    THEN [threw |-> TRUE, photos |-> coll, trace |-> <<Ev("photo.save", FALSE)>>]
    ELSE [threw |-> FALSE, photos |-> Put(coll, id, doc),
          trace |-> <<Ev("photo.save", TRUE)>>]

---------------------------------------------------------------------------
(* server.js: error handling middleware *)

\* a middleware that answers every upload error as a client error
ErrorMiddlewareClientError(err) == 400

ErrorMiddleware(err) ==
    IF err = "LIMIT_FILE_SIZE" THEN 400
    ELSE IF err = "LIMIT_UNEXPECTED_FILE" THEN 400
    ELSE 500

---------------------------------------------------------------------------
(* routes/photos.js *)

\* the stores as one value, so that a route is a function of state and request
Store == [photos |-> photos, blobs |-> blobs, activity |-> activity,
          nextKey |-> nextKey, nextId |-> nextId,
          albums |-> albums, nextAlbumId |-> nextAlbumId]

NoReq == [file |-> NoFile, title |-> <<>>]

\* the response, with what the request was and what it did (photoId 0: no photo)
Resp(op, user, status, photoId, thumb, deriv, trace) ==
    [op |-> op, user |-> user, status |-> status, photoId |-> photoId,
     thumbnailS3Key |-> thumb, deriv |-> deriv, trace |-> trace, req |-> NoReq]

\* what a request leaves behind: the stores and the response
Outcome(st, p, b, a, usedKey, usedId, resp) ==
    [photos |-> p, blobs |-> b, activity |-> a,
     nextKey |-> IF usedKey THEN st.nextKey + 1 ELSE st.nextKey,
     nextId |-> IF usedId THEN st.nextId + 1 ELSE st.nextId,
     resp |-> resp]

\* body('title').isLength({ min: 1 }).trim(): the length is checked on the
\* value as sent, then the value is trimmed
TitleErrors(title) == Len(title) < 1
SanitizedTitle(title) == Trim(title)

DerivOf(pi) == IF pi.derived THEN "derived" ELSE IF pi.threw THEN "threw" ELSE "failed"

\* an upload route that derives the key itself (getThumbnailKey), whatever the outcome
UploadThumbnailKeyGuessed(pi, s3Key) == ThumbnailKeyOf(s3Key)

\* the thumbnail key the upload route keeps after the processImage call on s3Key
UploadThumbnailKey(pi, s3Key) == IF pi.threw THEN Null ELSE pi.thumbnailKey

\* router.post('/upload', auth, upload.single('photo'), [validators], handler)
PostUploadRoute(st, user, file, title, t, faults) ==
    LET up == UploadSingle(st.blobs, file, st.nextKey, faults)
        usedKey == up.trace # <<>>
    IN
    IF up.err # "none"
    THEN Outcome(st, st.photos, up.blobs, st.activity, usedKey, FALSE,
                 Resp("upload", user, ErrorMiddleware(up.err), 0, Undefined,
                      "none", up.trace))
    ELSE IF TitleErrors(title)
    THEN Outcome(st, st.photos, up.blobs, st.activity, usedKey, FALSE,
                 Resp("upload", user, 400, 0, Undefined, "none", up.trace))
    ELSE IF up.file = NoFile
    THEN Outcome(st, st.photos, up.blobs, st.activity, usedKey, FALSE,
                 Resp("upload", user, 400, 0, Undefined, "none", up.trace))
    ELSE
    LET pi == processImage(up.blobs, up.file.key, faults)
        thumbnailKey == UploadThumbnailKey(pi, up.file.key)
        doc == NewPhoto(SanitizedTitle(title), up.file, thumbnailKey, user)
        saved == PhotoSave(st.photos, st.nextId, doc, faults)
        log == logActivity(st.activity, user, "photo_upload", st.nextId, t, faults)
    IN
    IF saved.threw
    THEN Outcome(st, st.photos, pi.blobs, st.activity, usedKey, FALSE,
                 Resp("upload", user, 500, 0, Undefined, DerivOf(pi),
                      up.trace \o pi.trace \o saved.trace))
    ELSE IF log.threw
    THEN Outcome(st, saved.photos, pi.blobs, log.table, usedKey, TRUE,
                 Resp("upload", user, 500, 0, Undefined, DerivOf(pi),
                      up.trace \o pi.trace \o saved.trace \o log.trace))
    ELSE Outcome(st, saved.photos, pi.blobs, log.table, usedKey, TRUE,
                 Resp("upload", user, 201, st.nextId, doc.thumbnailS3Key, DerivOf(pi),
                      up.trace \o pi.trace \o saved.trace \o log.trace))

PostUpload(st, user, file, title, t, faults) ==
    LET out == PostUploadRoute(st, user, file, title, t, faults)
    IN [out EXCEPT !.resp.req = [file |-> file, title |-> title]]

\* Photo.findById
FindById(st, id) ==
    IF id \in DOMAIN st.photos THEN st.photos[id] ELSE Null

\* the try block of the delete route: the original, then the thumbnail; the
\* first rejection leaves the block
DeleteBlobs(b, photo, faults) ==
    LET first == IF ~Nullish(photo.s3Key)
                 THEN deleteFromS3(b, photo.s3Key, "s3Delete" \notin faults)
                 ELSE [threw |-> FALSE, blobs |-> b]
        firstTrace == IF ~Nullish(photo.s3Key)
                      THEN <<Ev("s3.delete", ~first.threw)>> ELSE <<>>
    IN IF first.threw
       THEN [blobs |-> first.blobs, trace |-> firstTrace]
       ELSE IF ~Nullish(photo.thumbnailS3Key)
       THEN LET second == deleteFromS3(first.blobs, photo.thumbnailS3Key,
                                       "s3DeleteThumb" \notin faults)
            IN [blobs |-> second.blobs,
                trace |-> firstTrace \o <<Ev("s3.deleteThumb", ~second.threw)>>]
       ELSE [blobs |-> first.blobs, trace |-> firstTrace]

\* a route without the ownership check
IsOwnerUnchecked(photo, user) == TRUE

\* the ownership check of the delete and reprocess routes
IsOwner(photo, user) == photo.uploadedBy = user

\* a delete route whose deletion of the blobs is not wrapped: a rejected blob
\* deletion ends the request
DeletePhotoAbortsOnBlobFailure(st, user, id, t, faults) ==
    LET photo == FindById(st, id) IN
    IF photo = Null
    THEN Outcome(st, st.photos, st.blobs, st.activity, FALSE, FALSE,
                 Resp("delete", user, 404, id, Undefined, "none", <<>>))
    ELSE IF ~IsOwner(photo, user)
    THEN Outcome(st, st.photos, st.blobs, st.activity, FALSE, FALSE,
                 Resp("delete", user, 403, id, Undefined, "none", <<>>))
    ELSE
    LET del == DeleteBlobs(st.blobs, photo, faults)
        log == logActivity(st.activity, user, "photo_delete", id, t, faults)
    IN
    IF "dbDelete" \in faults \/ \E i \in DOMAIN del.trace : ~del.trace[i].ok
    THEN Outcome(st, st.photos, del.blobs, st.activity, FALSE, FALSE,
                 Resp("delete", user, 500, id, Undefined, "none", del.trace))
    ELSE Outcome(st, Remove(st.photos, id), del.blobs, log.table, FALSE, FALSE,
                 Resp("delete", user, 200, id, Undefined, "none",
                      del.trace \o <<Ev("photo.delete", TRUE)>> \o log.trace))

\* router.delete('/:id', auth, handler)
DeletePhoto(st, user, id, t, faults) ==
    LET photo == FindById(st, id) IN
    IF photo = Null
    THEN Outcome(st, st.photos, st.blobs, st.activity, FALSE, FALSE,
                 Resp("delete", user, 404, id, Undefined, "none", <<>>))
    ELSE IF ~IsOwner(photo, user)
    THEN Outcome(st, st.photos, st.blobs, st.activity, FALSE, FALSE,
                 Resp("delete", user, 403, id, Undefined, "none", <<>>))
    ELSE
    LET del == DeleteBlobs(st.blobs, photo, faults)
        log == logActivity(st.activity, user, "photo_delete", id, t, faults)
    IN
    IF "dbDelete" \in faults
    THEN Outcome(st, st.photos, del.blobs, st.activity, FALSE, FALSE,
                 Resp("delete", user, 500, id, Undefined, "none",
                      del.trace \o <<Ev("photo.delete", FALSE)>>))
    ELSE IF log.threw
    THEN Outcome(st, Remove(st.photos, id), del.blobs, log.table, FALSE, FALSE,
                 Resp("delete", user, 500, id, Undefined, "none",
                      del.trace \o <<Ev("photo.delete", TRUE)>> \o log.trace))
    ELSE Outcome(st, Remove(st.photos, id), del.blobs, log.table, FALSE, FALSE,
                 Resp("delete", user, 200, id, Undefined, "none",
                      del.trace \o <<Ev("photo.delete", TRUE)>> \o log.trace))

\* router.post('/:id/reprocess', auth, handler)
ReprocessPhoto(st, user, id, faults) ==
    LET photo == FindById(st, id) IN
    IF photo = Null
    THEN Outcome(st, st.photos, st.blobs, st.activity, FALSE, FALSE,
                 Resp("reprocess", user, 404, id, Undefined, "none", <<>>))
    ELSE IF ~IsOwner(photo, user)
    THEN Outcome(st, st.photos, st.blobs, st.activity, FALSE, FALSE,
                 Resp("reprocess", user, 403, id, Undefined, "none", <<>>))
    ELSE
    LET pi == processImage(st.blobs, photo.s3Key, faults)
        doc == [photo EXCEPT !.thumbnailS3Key = pi.thumbnailKey]
        saved == PhotoSave(st.photos, id, doc, faults)
    IN
    IF pi.threw
    THEN Outcome(st, st.photos, pi.blobs, st.activity, FALSE, FALSE,
                 Resp("reprocess", user, 500, id, Undefined, DerivOf(pi), pi.trace))
    ELSE IF saved.threw
    THEN Outcome(st, st.photos, pi.blobs, st.activity, FALSE, FALSE,
                 Resp("reprocess", user, 500, id, Undefined, DerivOf(pi),
                      pi.trace \o saved.trace))
    ELSE Outcome(st, saved.photos, pi.blobs, st.activity, FALSE, FALSE,
                 Resp("reprocess", user, 200, id, doc.thumbnailS3Key, DerivOf(pi),
                      pi.trace \o saved.trace))

\* router.get('/:id', handler)
GetPhoto(st, id) ==
    LET photo == FindById(st, id) IN
    IF photo = Null
    THEN Outcome(st, st.photos, st.blobs, st.activity, FALSE, FALSE,
                 Resp("get", "anyone", 404, id, Undefined, "none", <<>>))
    ELSE Outcome(st, st.photos, st.blobs, st.activity, FALSE, FALSE,
                 Resp("get", "anyone", 200, id, photo.thumbnailS3Key, "none", <<>>))

---------------------------------------------------------------------------
(* routes/albums.js *)

\* an ObjectId, its hex string (request bodies carry ids as strings), and the
\* cast mongoose applies to a string where the schema says ObjectId
ObjectId(n) == [oid |-> n]
HexString(o) == [hex |-> o.oid]
CastObjectId(s) == [oid |-> s.hex]

Range(s) == {s[i] : i \in DOMAIN s}
CastAll(ids) == [i \in DOMAIN ids |-> CastObjectId(ids[i])]

\* MongooseArray.includes(id): members are compared with id by their string form
ArrayIncludes(arr, id) == \E i \in DOMAIN arr : HexString(arr[i]) = id

\* a query without the uploadedBy condition
FindPhotosOfAnyone(coll, photoIds, userId) ==
    {n \in DOMAIN coll : HexString(ObjectId(n)) \in Range(photoIds)}

\* Photo.find({ _id: { $in: photoIds }, uploadedBy: userId })
FindOwnedPhotos(coll, photoIds, userId) ==
    {n \in DOMAIN coll : /\ HexString(ObjectId(n)) \in Range(photoIds)
                         /\ coll[n].uploadedBy = userId}

\* an update that matches no photo
PushAlbumNowhere(coll, ids, albumId) == coll

\* Photo.updateMany({ _id: { $in: ids } }, { $push: { albums: albumId } })
PushAlbum(coll, ids, albumId) ==
    [n \in DOMAIN coll |->
        IF ObjectId(n) \in ids
        THEN [coll[n] EXCEPT !.albums = Append(@, albumId)]
        ELSE coll[n]]

\* Photo.updateMany({ _id: { $in: ids } }, { $pull: { albums: albumId } })
PullAlbum(coll, ids, albumId) ==
    LET Other(a) == a # albumId IN
    [n \in DOMAIN coll |->
        IF ObjectId(n) \in ids
        THEN [coll[n] EXCEPT !.albums = SelectSeq(@, Other)]
        ELSE coll[n]]

\* Album.findById
FindAlbumById(st, id) ==
    IF id \in DOMAIN st.albums THEN st.albums[id] ELSE Null

\* the response of an album route, with what the request was and what it did
AlbumResp(op, user, status, albumId, trace) ==
    [op |-> op, user |-> user, status |-> status, albumId |-> albumId, trace |-> trace]

\* what an album request leaves behind
AlbumOutcome(st, p, a, usedId, resp) ==
    [photos |-> p, albums |-> a,
     nextAlbumId |-> IF usedId THEN st.nextAlbumId + 1 ELSE st.nextAlbumId,
     resp |-> resp]

\* a check that is content with one photo of the user among the ids
AllOwnedAny(st, photoIds, user) ==
    Cardinality(FindOwnedPhotos(st.photos, photoIds, user)) > 0

\* "Verify photos belong to user": as many photos found as ids were sent
AllOwned(st, photoIds, user) ==
    Cardinality(FindOwnedPhotos(st.photos, photoIds, user)) = Len(photoIds)

\* new Album({...}) of the create route
NewAlbum(user, photoIds) ==
    [createdBy |-> user,
     photos |-> CastAll(photoIds),
     coverPhoto |-> IF Len(photoIds) > 0 THEN CastObjectId(photoIds[1]) ELSE Null]

\* router.post('/create', auth, [validators], handler); a request without
\* photoIds behaves as one with an empty list
CreateRoute(st, user, photoIds) ==
    IF Len(photoIds) > 0 /\ ~AllOwned(st, photoIds, user)
    THEN AlbumOutcome(st, st.photos, st.albums, FALSE,
                      AlbumResp("create", user, 400, 0, <<>>))
    ELSE
    LET id == st.nextAlbumId
        album == NewAlbum(user, photoIds)
    IN IF Len(photoIds) > 0
       THEN AlbumOutcome(st, PushAlbum(st.photos, Range(CastAll(photoIds)), ObjectId(id)),
                         Put(st.albums, id, album), TRUE,
                         AlbumResp("create", user, 201, id,
                                   <<Ev("album.save", TRUE), Ev("photo.updateMany", TRUE)>>))
       ELSE AlbumOutcome(st, st.photos, Put(st.albums, id, album), TRUE,
                         AlbumResp("create", user, 201, id,
                                   <<Ev("album.save", TRUE)>>))

\* an album route without the ownership check
IsAlbumOwnerUnchecked(album, user) == TRUE

\* the ownership check of the add-photos, remove-photos and delete routes
IsAlbumOwner(album, user) == album.createdBy = user

\* an add-photos route that pushes every id it was sent
NewPhotoIdsUnfiltered(album, photoIds) == photoIds

\* photoIds.filter(id => !album.photos.includes(id))
NewPhotoIds(album, photoIds) ==
    LET IsNew(id) == ~ArrayIncludes(album.photos, id) IN SelectSeq(photoIds, IsNew)

\* an add-photos route that makes the first new photo the cover in any case
CoverAfterAddAlways(album, newPhotoIds) ==
    IF Len(newPhotoIds) > 0 THEN CastObjectId(newPhotoIds[1]) ELSE album.coverPhoto

\* "Set cover photo if album doesn't have one"
CoverAfterAdd(album, newPhotoIds) ==
    IF Nullish(album.coverPhoto) /\ Len(newPhotoIds) > 0
    THEN CastObjectId(newPhotoIds[1])
    ELSE album.coverPhoto

\* router.post('/:id/add-photos', auth, [validators], handler)
AddPhotosRoute(st, user, id, photoIds) ==
    LET album == FindAlbumById(st, id) IN
    IF album = Null
    THEN AlbumOutcome(st, st.photos, st.albums, FALSE,
                      AlbumResp("addPhotos", user, 404, id, <<>>))
    ELSE IF ~IsAlbumOwner(album, user)
    THEN AlbumOutcome(st, st.photos, st.albums, FALSE,
                      AlbumResp("addPhotos", user, 403, id, <<>>))
    ELSE IF ~AllOwned(st, photoIds, user)
    THEN AlbumOutcome(st, st.photos, st.albums, FALSE,
                      AlbumResp("addPhotos", user, 400, id, <<>>))
    ELSE
    LET newPhotoIds == NewPhotoIds(album, photoIds)
        saved == [album EXCEPT
                    !.photos = @ \o CastAll(newPhotoIds),
                    !.coverPhoto = CoverAfterAdd(album, newPhotoIds)]
    IN AlbumOutcome(st, PushAlbum(st.photos, Range(CastAll(newPhotoIds)), ObjectId(id)),
                    Put(st.albums, id, saved), FALSE,
                    AlbumResp("addPhotos", user, 200, id,
                              <<Ev("album.save", TRUE), Ev("photo.updateMany", TRUE)>>))

\* a remove-photos route that leaves the cover as it is
CoverAfterRemoveStale(album, remaining, photoIds) == album.coverPhoto

\* a remove-photos route that falls back to the last remaining member
CoverAfterRemoveLast(album, remaining, photoIds) ==
    IF ~Nullish(album.coverPhoto) /\ HexString(album.coverPhoto) \in Range(photoIds)
    THEN IF Len(remaining) > 0 THEN remaining[Len(remaining)] ELSE Null
    ELSE album.coverPhoto

\* "Update cover photo if it was removed"
CoverAfterRemove(album, remaining, photoIds) ==
    IF ~Nullish(album.coverPhoto) /\ HexString(album.coverPhoto) \in Range(photoIds)
    THEN IF Len(remaining) > 0 THEN remaining[1] ELSE Null
    ELSE album.coverPhoto

\* router.post('/:id/remove-photos', auth, [validators], handler)
RemovePhotosRoute(st, user, id, photoIds) ==
    LET album == FindAlbumById(st, id) IN
    IF album = Null
    THEN AlbumOutcome(st, st.photos, st.albums, FALSE,
                      AlbumResp("removePhotos", user, 404, id, <<>>))
    ELSE IF ~IsAlbumOwner(album, user)
    THEN AlbumOutcome(st, st.photos, st.albums, FALSE,
                      AlbumResp("removePhotos", user, 403, id, <<>>))
    ELSE
    LET Kept(photoId) == HexString(photoId) \notin Range(photoIds)
        remaining == SelectSeq(album.photos, Kept)
        saved == [album EXCEPT
                    !.photos = remaining,
                    !.coverPhoto = CoverAfterRemove(album, remaining, photoIds)]
    IN AlbumOutcome(st, PullAlbum(st.photos, Range(CastAll(photoIds)), ObjectId(id)),
                    Put(st.albums, id, saved), FALSE,
                    AlbumResp("removePhotos", user, 200, id,
                              <<Ev("album.save", TRUE), Ev("photo.updateMany", TRUE)>>))

\* a delete route that leaves the member photos alone
PullFromMembersSkipped(coll, album, albumId) == coll

\* "Remove album reference from photos"
PullFromMembers(coll, album, albumId) == PullAlbum(coll, Range(album.photos), albumId)

\* router.delete('/:id', auth, handler)
DeleteAlbumRoute(st, user, id) ==
    LET album == FindAlbumById(st, id) IN
    IF album = Null
    THEN AlbumOutcome(st, st.photos, st.albums, FALSE,
                      AlbumResp("deleteAlbum", user, 404, id, <<>>))
    ELSE IF ~IsAlbumOwner(album, user)
    THEN AlbumOutcome(st, st.photos, st.albums, FALSE,
                      AlbumResp("deleteAlbum", user, 403, id, <<>>))
    ELSE AlbumOutcome(st, PullFromMembers(st.photos, album, ObjectId(id)),
                      Remove(st.albums, id), FALSE,
                      AlbumResp("deleteAlbum", user, 200, id,
                                <<Ev("photo.updateMany", TRUE), Ev("album.delete", TRUE)>>))

---------------------------------------------------------------------------
(* The state machine *)

PhotoIds == 1..MaxUploads

\* the fault sets that matter to each route
UploadFaults == {F \in FaultSets :
                    F \subseteq {"s3Put", "s3Delete", "lambdaInvoke", "lambdaFunction",
                                 "thumbPut", "dbSave", "activityPut"}}
DeleteFaults == {F \in FaultSets :
                    F \subseteq {"s3Delete", "s3DeleteThumb", "dbDelete", "activityPut"}}
ReprocessFaults == {F \in FaultSets :
                       F \subseteq {"lambdaInvoke", "lambdaFunction", "thumbPut", "dbSave"}}

Init ==
    /\ photos = Empty
    /\ blobs = Empty
    /\ activity = Empty
    /\ nextKey = 1
    /\ nextId = 1
    /\ albums = Empty
    /\ nextAlbumId = 1
    /\ inflight = [slot \in 1..MaxInflight |-> [pc |-> "idle"]]
    /\ lastReq = Resp("none", "anyone", 0, 0, Undefined, "none", <<>>)

Apply(out) ==
    /\ photos' = out.photos
    /\ blobs' = out.blobs
    /\ activity' = out.activity
    /\ nextKey' = out.nextKey
    /\ nextId' = out.nextId
    /\ lastReq' = out.resp
    /\ UNCHANGED <<albums, nextAlbumId, inflight>>

Upload ==
    \E user \in Users, file \in Files, title \in Titles, t \in Clock,
       faults \in UploadFaults :
        LET out == PostUpload(Store, user, file, title, t, faults) IN
        /\ out.nextKey <= MaxUploads + 1
        /\ Apply(out)

Delete ==
    \E user \in Users, id \in PhotoIds, t \in Clock, faults \in DeleteFaults :
        Apply(DeletePhoto(Store, user, id, t, faults))

Reprocess ==
    \E user \in Users, id \in PhotoIds, faults \in ReprocessFaults :
        Apply(ReprocessPhoto(Store, user, id, faults))

Fetch ==
    \E id \in PhotoIds : Apply(GetPhoto(Store, id))

Next == Upload \/ Delete \/ Reprocess \/ Fetch

Spec == Init /\ [][Next]_vars

---------------------------------------------------------------------------
(* The state machine of the album routes: photos are uploaded and deleted    *)
(* with every store call succeeding, and albums are created, filled,         *)
(* emptied and deleted.                                                      *)

AlbumPhotoIds == 1..MaxAlbumPhotos
AlbumIds == 1..MaxAlbums

\* the photoIds arrays of the requests: ids of photos that exist or may come
\* to exist, repeated ids included
HexIds == {HexString(ObjectId(n)) : n \in AlbumPhotoIds}
PhotoIdLists == UNION {[1..k -> HexIds] : k \in 0..MaxPhotoIds}

ApplyAlbum(out) ==
    /\ photos' = out.photos
    /\ albums' = out.albums
    /\ nextAlbumId' = out.nextAlbumId
    /\ lastReq' = out.resp
    /\ UNCHANGED <<blobs, activity, nextKey, nextId, inflight>>

UploadPhoto ==
    \E user \in Users :
        LET out == PostUpload(Store, user, ImageFile(FileSizeLimit, TRUE), <<" ", "a">>,
                              0, {})
        IN /\ out.nextId <= MaxAlbumPhotos + 1
           /\ Apply(out)

RemovePhoto ==
    \E user \in Users, id \in AlbumPhotoIds : Apply(DeletePhoto(Store, user, id, 0, {}))

CreateAlbum ==
    \E user \in Users, photoIds \in PhotoIdLists :
        LET out == CreateRoute(Store, user, photoIds)
        IN /\ out.nextAlbumId <= MaxAlbums + 1
           /\ ApplyAlbum(out)

AddPhotos ==
    \E user \in Users, id \in AlbumIds, photoIds \in PhotoIdLists :
        ApplyAlbum(AddPhotosRoute(Store, user, id, photoIds))

RemovePhotos ==
    \E user \in Users, id \in AlbumIds, photoIds \in PhotoIdLists :
        ApplyAlbum(RemovePhotosRoute(Store, user, id, photoIds))

DeleteAlbum ==
    \E user \in Users, id \in AlbumIds : ApplyAlbum(DeleteAlbumRoute(Store, user, id))

AlbumNext ==
    UploadPhoto \/ RemovePhoto \/ CreateAlbum \/ AddPhotos \/ RemovePhotos \/ DeleteAlbum

AlbumSpec == Init /\ [][AlbumNext]_vars

---------------------------------------------------------------------------
(* The state machine of overlapping album requests.  The add-photos and     *)
(* delete handlers of routes/albums.js run one await at a time: what a      *)
(* handler has read stays in its local state (inflight) while other         *)
(* requests go on.  Photos are uploaded and albums created in one step.     *)

Slots == 1..MaxInflight
Idle == [pc |-> "idle"]
RacePhotoIds == {HexString(ObjectId(n)) : n \in 1..MaxRacePhotos}
RacePhotoIdLists == UNION {[1..k -> RacePhotoIds] : k \in 0..1}

\* the request of a slot ends with a response
Respond(slot, resp) ==
    /\ inflight' = [inflight EXCEPT ![slot] = Idle]
    /\ lastReq' = resp

RaceUpload ==
    \E user \in Users :
        LET out == PostUpload(Store, user, ImageFile(FileSizeLimit, TRUE), <<" ", "a">>,
                              0, {})
        IN /\ out.nextId <= MaxRacePhotos + 1
           /\ Apply(out)

RaceCreate ==
    \E user \in Users :
        LET out == CreateRoute(Store, user, <<>>)
        IN /\ out.nextAlbumId <= MaxAlbums + 1
           /\ ApplyAlbum(out)

\* add-photos: await Album.findById, then the 404 and 403 answers
AddPhotosFindAlbum(slot) ==
    \E user \in Users, id \in AlbumIds, photoIds \in RacePhotoIdLists :
        LET album == FindAlbumById(Store, id) IN
        /\ inflight[slot] = Idle
        /\ UNCHANGED <<photos, blobs, activity, nextKey, nextId, albums, nextAlbumId>>
        /\ IF album = Null
           THEN Respond(slot, AlbumResp("addPhotos", user, 404, id, <<>>))
           ELSE IF ~IsAlbumOwner(album, user)
           THEN Respond(slot, AlbumResp("addPhotos", user, 403, id, <<>>))
           ELSE /\ inflight' = [inflight EXCEPT ![slot] =
                                  [pc |-> "add.findPhotos", user |-> user, id |-> id,
                                   photoIds |-> photoIds, album |-> album]]
                /\ UNCHANGED lastReq

\* add-photos: await Photo.find, then the 400 answer or the changes to the
\* album document the handler holds
AddPhotosFindPhotos(slot) ==
    LET r == inflight[slot] IN
    /\ r.pc = "add.findPhotos"
    /\ UNCHANGED <<photos, blobs, activity, nextKey, nextId, albums, nextAlbumId>>
    /\ IF ~AllOwned(Store, r.photoIds, r.user)
       THEN Respond(slot, AlbumResp("addPhotos", r.user, 400, r.id, <<>>))
       ELSE /\ inflight' = [inflight EXCEPT ![slot] =
                              [pc |-> "add.save", user |-> r.user, id |-> r.id,
                               album |-> r.album,
                               newPhotoIds |-> NewPhotoIds(r.album, r.photoIds)]]
            /\ UNCHANGED lastReq

\* album.save() of a document that was read before: the changes made to the
\* document are sent ($push of the pushed ids, $set of an assigned cover);
\* the save rejects when the document is no longer in the collection
AlbumSaveChanges(coll, id, album, newPhotoIds) ==
    IF id \notin DOMAIN coll
    THEN [threw |-> TRUE, albums |-> coll]
    ELSE [threw |-> FALSE,
          albums |-> [coll EXCEPT
                        ![id].photos = @ \o CastAll(newPhotoIds),
                        ![id].coverPhoto =
                            IF CoverAfterAdd(album, newPhotoIds) # album.coverPhoto
                            THEN CoverAfterAdd(album, newPhotoIds) ELSE @]]

\* add-photos: await album.save()
AddPhotosSave(slot) ==
    LET r == inflight[slot]
        saved == AlbumSaveChanges(albums, r.id, r.album, r.newPhotoIds)
    IN
    /\ r.pc = "add.save"
    /\ UNCHANGED <<photos, blobs, activity, nextKey, nextId, nextAlbumId>>
    /\ albums' = saved.albums
    /\ IF saved.threw
       THEN Respond(slot, AlbumResp("addPhotos", r.user, 500, r.id,
                                    <<Ev("album.save", FALSE)>>))
       ELSE /\ inflight' = [inflight EXCEPT ![slot] =
                              [pc |-> "add.updateMany", user |-> r.user, id |-> r.id,
                               newPhotoIds |-> r.newPhotoIds]]
            /\ UNCHANGED lastReq

\* add-photos: await Photo.updateMany($push), then the 200 answer
AddPhotosUpdateMany(slot) ==
    LET r == inflight[slot] IN
    /\ r.pc = "add.updateMany"
    /\ photos' = PushAlbum(photos, Range(CastAll(r.newPhotoIds)), ObjectId(r.id))
    /\ UNCHANGED <<blobs, activity, nextKey, nextId, albums, nextAlbumId>>
    /\ Respond(slot, AlbumResp("addPhotos", r.user, 200, r.id,
                               <<Ev("album.save", TRUE), Ev("photo.updateMany", TRUE)>>))

\* delete: await Album.findById, then the 404 and 403 answers
DeleteAlbumFindAlbum(slot) ==
    \E user \in Users, id \in AlbumIds :
        LET album == FindAlbumById(Store, id) IN
        /\ inflight[slot] = Idle
        /\ UNCHANGED <<photos, blobs, activity, nextKey, nextId, albums, nextAlbumId>>
        /\ IF album = Null
           THEN Respond(slot, AlbumResp("deleteAlbum", user, 404, id, <<>>))
           ELSE IF ~IsAlbumOwner(album, user)
           THEN Respond(slot, AlbumResp("deleteAlbum", user, 403, id, <<>>))
           ELSE /\ inflight' = [inflight EXCEPT ![slot] =
                                  [pc |-> "delete.updateMany", user |-> user, id |-> id,
                                   album |-> album]]
                /\ UNCHANGED lastReq

\* delete: await Photo.updateMany($pull) over the photo list that was read
DeleteAlbumUpdateMany(slot) ==
    LET r == inflight[slot] IN
    /\ r.pc = "delete.updateMany"
    /\ photos' = PullFromMembers(photos, r.album, ObjectId(r.id))
    /\ UNCHANGED <<blobs, activity, nextKey, nextId, albums, nextAlbumId, lastReq>>
    /\ inflight' = [inflight EXCEPT ![slot] =
                      [pc |-> "delete.remove", user |-> r.user, id |-> r.id]]

\* delete: await Album.findByIdAndDelete, then the 200 answer
DeleteAlbumRemove(slot) ==
    LET r == inflight[slot] IN
    /\ r.pc = "delete.remove"
    /\ albums' = IF r.id \in DOMAIN albums THEN Remove(albums, r.id) ELSE albums
    /\ UNCHANGED <<photos, blobs, activity, nextKey, nextId, nextAlbumId>>
    /\ Respond(slot, AlbumResp("deleteAlbum", r.user, 200, r.id,
                               <<Ev("photo.updateMany", TRUE), Ev("album.delete", TRUE)>>))

RaceNext ==
    \/ RaceUpload
    \/ RaceCreate
    \/ \E slot \in Slots : AddPhotosFindAlbum(slot)
    \/ \E slot \in Slots : AddPhotosFindPhotos(slot)
    \/ \E slot \in Slots : AddPhotosSave(slot)
    \/ \E slot \in Slots : AddPhotosUpdateMany(slot)
    \/ \E slot \in Slots : DeleteAlbumFindAlbum(slot)
    \/ \E slot \in Slots : DeleteAlbumUpdateMany(slot)
    \/ \E slot \in Slots : DeleteAlbumRemove(slot)

RaceSpec == Init /\ [][RaceNext]_vars

---------------------------------------------------------------------------
(* Properties *)

Did(op) == \E i \in DOMAIN lastReq.trace : lastReq.trace[i].op = op
Succeeded(op) == \E i \in DOMAIN lastReq.trace : lastReq.trace[i] = Ev(op, TRUE)
Rejected(op) == \E i \in DOMAIN lastReq.trace : lastReq.trace[i] = Ev(op, FALSE)

IsUpload == lastReq.op = "upload"
DerivationFailed == lastReq.deriv \in {"threw", "failed"}
DerivationSucceeded == lastReq.deriv = "derived"

\* the request named an image within the size limit and a title that is not
\* empty after trimming
ValidUpload(req) ==
    /\ req.file # NoFile
    /\ req.file.field = "photo"
    /\ req.file.type = "image"
    /\ req.file.size <= FileSizeLimit
    /\ Trim(req.title) # <<>>

\* no store write was rejected while the request ran (the derivation aside)
NoStoreFault ==
    \A i \in DOMAIN lastReq.trace :
        lastReq.trace[i].ok \/ lastReq.trace[i].op \in {"lambda.invoke", "thumb.put",
                                                       "photo.validate"}

Persisted == lastReq.photoId \in DOMAIN photos

C2_Claim ==
    (IsUpload /\ lastReq.status = 201 /\ DerivationSucceeded) =>
        /\ ~Nullish(photos[lastReq.photoId].thumbnailS3Key)
        /\ photos[lastReq.photoId].thumbnailS3Key # photos[lastReq.photoId].s3Key

\* the request fails validation: title empty after trimming, non-image MIME
\* type, or no file
ValidationFailure(req) ==
    \/ Trim(req.title) = <<>>
    \/ req.file = NoFile
    \/ (req.file # NoFile /\ req.file.type # "image")

\* C3: an upload rejected for a validation failure writes nothing: no new blob,
\* no Photo record, no activity entry.
C3_Claim ==
    [][(lastReq'.op = "upload" /\ ValidationFailure(lastReq'.req))
        => (blobs' = blobs /\ photos' = photos /\ activity' = activity)]_vars

C5_StorageFailureAborts ==
    [][(lastReq'.op = "upload"
        /\ \E i \in DOMAIN lastReq'.trace : lastReq'.trace[i] = Ev("s3.put", FALSE))
        => /\ lastReq'.status = 500
           /\ photos' = photos
           /\ blobs' = blobs
           /\ activity' = activity
           /\ \A i \in DOMAIN lastReq'.trace :
                  lastReq'.trace[i].op \notin {"lambda.invoke", "photo.save",
                                               "activity.put"}]_vars

C5_Witness ==
    /\ IsUpload
    /\ Rejected("s3.put")
    /\ lastReq.status = 500
    /\ ValidUpload(lastReq.req)

\* no store call was rejected while the request ran
NoFault == \A i \in DOMAIN lastReq.trace : lastReq.trace[i].ok

\* C6: an upload of exactly 10 MiB is accepted, and an upload of more than
\* 10 MiB answers 400 before any byte of it is written to the blob store.
C6_Claim ==
    (/\ IsUpload
     /\ NoFault
     /\ lastReq.req.file # NoFile
     /\ lastReq.req.file.field = "photo"
     /\ lastReq.req.file.type = "image"
     /\ Len(Trim(lastReq.req.title)) \in 1..TitleMaxLength) =>
        /\ (lastReq.req.file.size = FileSizeLimit => lastReq.status = 201)
        /\ (lastReq.req.file.size > FileSizeLimit =>
                lastReq.status = 400 /\ ~Did("s3.put"))

\* the fault sets of a route without the activity-log fault
WithoutLogFault(S) == {F \in S : "activityPut" \notin F}

\* C7: whether the activity-log write succeeds or fails, upload and delete
\* answer the same status and leave the same Photo collection and bucket.
C7_ActivityFailureNeverFailsRequest ==
    /\ \A user \in Users, file \in Files, title \in Titles, t \in Clock,
          F \in WithoutLogFault(UploadFaults) :
            LET ok == PostUpload(Store, user, file, title, t, F)
                ko == PostUpload(Store, user, file, title, t, F \cup {"activityPut"})
            IN /\ ko.resp.status = ok.resp.status
               /\ ko.photos = ok.photos
               /\ ko.blobs = ok.blobs
    /\ \A user \in Users, id \in PhotoIds, t \in Clock,
          F \in WithoutLogFault(DeleteFaults) :
            LET ok == DeletePhoto(Store, user, id, t, F)
                ko == DeletePhoto(Store, user, id, t, F \cup {"activityPut"})
            IN /\ ko.resp.status = ok.resp.status
               /\ ko.photos = ok.photos
               /\ ko.blobs = ok.blobs

C7_Witness ==
    /\ lastReq.op = "delete"
    /\ Rejected("activity.put")
    /\ lastReq.status = 200
    /\ lastReq.photoId \notin DOMAIN photos

\* C8: when derivation fails during the upload, the persisted record shows it
\* (processing status failed, or an error text), while the upload answers 201.
C8_Claim ==
    (IsUpload /\ lastReq.status = 201 /\ DerivationFailed) =>
        \/ photos[lastReq.photoId].processingStatus = "failed"
        \/ photos[lastReq.photoId].processingError # Undefined

\* C9: a reprocess by the owner whose derivation fails answers with an error,
\* not with success.
C9_Claim ==
    (lastReq.op = "reprocess" /\ DerivationFailed) => lastReq.status >= 400

\* C10: a delete or reprocess of photo P by a user who is not P's uploader
\* answers 403 and changes nothing: P's record, the bucket and the activity
\* table are as before, and P is still served by id.
C10_OwnerOnly ==
    [][(/\ lastReq'.op \in {"delete", "reprocess"}
        /\ lastReq'.photoId \in DOMAIN photos
        /\ photos[lastReq'.photoId].uploadedBy # lastReq'.user)
        => /\ lastReq'.status = 403
           /\ photos' = photos
           /\ blobs' = blobs
           /\ activity' = activity
           /\ GetPhoto(Store', lastReq'.photoId).resp.status = 200
           /\ GetPhoto(Store', lastReq'.photoId).resp.thumbnailS3Key
                 = photos[lastReq'.photoId].thumbnailS3Key]_vars

C10_Witness ==
    /\ lastReq.op = "delete"
    /\ lastReq.status = 403
    /\ lastReq.photoId \in DOMAIN photos
    /\ photos[lastReq.photoId].uploadedBy # lastReq.user

\* the photo ids an album refers to: the members of its photo list and its cover
AlbumRefs(album) ==
    Range(album.photos) \cup (IF Nullish(album.coverPhoto) THEN {} ELSE {album.coverPhoto})

\* C11: after a successful photo delete by the owner both blobs the record
\* names (the original and, if it has one, the thumbnail) are gone from the
\* bucket, and no album has the photo in its photo list or as its cover.
C11_Claim ==
    [][(lastReq'.op = "delete" /\ lastReq'.status = 200)
        => /\ photos[lastReq'.photoId].s3Key \notin DOMAIN blobs'
           /\ (~Nullish(photos[lastReq'.photoId].thumbnailS3Key)
                 => photos[lastReq'.photoId].thumbnailS3Key \notin DOMAIN blobs')
           /\ \A a \in DOMAIN albums' :
                  ObjectId(lastReq'.photoId) \notin AlbumRefs(albums'[a])]_vars

\* the position of the first event of one of the operations ops in the trace
\* of the last request (0: none)
FirstOf(ops) ==
    IF \E i \in DOMAIN lastReq.trace : lastReq.trace[i].op \in ops
    THEN CHOOSE i \in DOMAIN lastReq.trace :
            /\ lastReq.trace[i].op \in ops
            /\ \A j \in 1..(i - 1) : lastReq.trace[j].op \notin ops
    ELSE 0

\* C12: a photo delete by the owner deletes the blobs, then the record, then
\* writes the activity log, in this order; and when a blob deletion is
\* rejected (and the record deletion is not) the record is still deleted and
\* the request answers 200.
C12_DeleteOrderBestEffort ==
    (lastReq.op = "delete" /\ lastReq.status \notin {403, 404}) =>
        /\ FirstOf({"s3.delete"}) = 1
        /\ \A i, j \in DOMAIN lastReq.trace :
              /\ (/\ lastReq.trace[i].op \in {"s3.delete", "s3.deleteThumb"}
                  /\ lastReq.trace[j].op = "photo.delete") => i < j
              /\ (/\ lastReq.trace[i].op = "photo.delete"
                  /\ lastReq.trace[j].op = "activity.put") => i < j
        /\ (Did("activity.put") => Succeeded("photo.delete"))
        /\ ((Rejected("s3.delete") \/ Rejected("s3.deleteThumb"))
                /\ ~Rejected("photo.delete")) =>
              /\ Succeeded("photo.delete")
              /\ lastReq.photoId \notin DOMAIN photos
              /\ lastReq.status = 200

C12_Witness ==
    /\ lastReq.op = "delete"
    /\ Rejected("s3.delete")
    /\ Succeeded("photo.delete")
    /\ Succeeded("activity.put")
    /\ lastReq.status = 200
    /\ lastReq.photoId \notin DOMAIN photos

\* C13: in every state, the cover photo of every album, if set, is a member of
\* the album's photo list.
C13_CoverIsMember ==
    \A a \in DOMAIN albums :
        Nullish(albums[a].coverPhoto) \/ albums[a].coverPhoto \in Range(albums[a].photos)

C13_Witness ==
    /\ lastReq.op = "removePhotos"
    /\ lastReq.status = 200
    /\ lastReq.albumId \in DOMAIN albums
    /\ albums[lastReq.albumId].photos # <<>>
    /\ albums[lastReq.albumId].coverPhoto = albums[lastReq.albumId].photos[1]
    /\ \E n \in DOMAIN photos :
          /\ photos[n].uploadedBy = albums[lastReq.albumId].createdBy
          /\ ObjectId(n) \notin Range(albums[lastReq.albumId].photos)

\* the stores after an album request
StoreAfter(out) ==
    [Store EXCEPT !.photos = out.photos, !.albums = out.albums,
                  !.nextAlbumId = out.nextAlbumId]

Count(seq, x) == Cardinality({i \in DOMAIN seq : seq[i] = x})
NoDuplicates(seq) == \A i, j \in DOMAIN seq : seq[i] = seq[j] => i = j

SomeNotOwned(photoIds, user) ==
    \E i \in DOMAIN photoIds :
        LET n == CastObjectId(photoIds[i]).oid
        IN n \notin DOMAIN photos \/ photos[n].uploadedBy # user

\* C15: when some id in photoIds is not a photo uploaded by the requester,
\* album creation answers 400 and creates no album, addPhotos by the album's
\* owner answers 400, and neither changes any album or any photo.
C15_OwnershipAllOrNothing ==
    \A user \in Users, photoIds \in PhotoIdLists :
        SomeNotOwned(photoIds, user) =>
            /\ LET out == CreateRoute(Store, user, photoIds)
               IN /\ out.resp.status = 400
                  /\ out.albums = albums
                  /\ out.photos = photos
                  /\ out.nextAlbumId = nextAlbumId
            /\ \A id \in DOMAIN albums :
                  albums[id].createdBy = user =>
                      LET out == AddPhotosRoute(Store, user, id, photoIds)
                      IN /\ out.resp.status = 400
                         /\ out.albums = albums
                         /\ out.photos = photos

\* an addPhotos by the album's owner was refused while the owner has a photo
\* of their own and another user has one too
C15_Witness ==
    /\ lastReq.op = "addPhotos"
    /\ lastReq.status = 400
    /\ lastReq.albumId \in DOMAIN albums
    /\ \E n, m \in DOMAIN photos :
          /\ photos[n].uploadedBy = lastReq.user
          /\ photos[m].uploadedBy # lastReq.user

\* some id of photoIds is a photo uploaded by a user other than user
SomeForeign(photoIds, user) ==
    \E i \in DOMAIN photoIds :
        LET n == CastObjectId(photoIds[i]).oid
        IN n \in DOMAIN photos /\ photos[n].uploadedBy # user

\* C16: a removePhotos by the album's owner whose photoIds holds a photo of
\* another user fails and changes neither the album nor any photo.
C16_Claim ==
    \A user \in Users, id \in DOMAIN albums, photoIds \in PhotoIdLists :
        (albums[id].createdBy = user /\ SomeForeign(photoIds, user)) =>
            LET out == RemovePhotosRoute(Store, user, id, photoIds)
            IN /\ out.resp.status >= 400
               /\ out.albums = albums
               /\ out.photos = photos

\* C17: addPhotos, removePhotos and deleteAlbum by a user who is not the
\* album's creator answer 403 and leave every album (its photo list, its
\* cover, its existence) and every photo's album list as they were.
C17_AlbumOwnerOnly ==
    \A user \in Users, id \in DOMAIN albums, photoIds \in PhotoIdLists :
        albums[id].createdBy # user =>
            LET add == AddPhotosRoute(Store, user, id, photoIds)
                rem == RemovePhotosRoute(Store, user, id, photoIds)
                del == DeleteAlbumRoute(Store, user, id)
            IN \A out \in {add, rem, del} :
                  /\ out.resp.status = 403
                  /\ out.albums = albums
                  /\ out.photos = photos

\* a request of another user on an album that has members was answered 403
C17_Witness ==
    /\ lastReq.op \in {"addPhotos", "removePhotos", "deleteAlbum"}
    /\ lastReq.status = 403
    /\ lastReq.albumId \in DOMAIN albums
    /\ albums[lastReq.albumId].createdBy # lastReq.user
    /\ albums[lastReq.albumId].photos # <<>>

\* C18: a deleteAlbum that succeeds pulls the album from the member photos
\* before it deletes the album record, and once it has completed the album is
\* gone and no photo's album list refers to it.
C18_DeleteAlbumPullsFirst ==
    (lastReq.op = "deleteAlbum" /\ lastReq.status = 200) =>
        /\ lastReq.trace = <<Ev("photo.updateMany", TRUE), Ev("album.delete", TRUE)>>
        /\ lastReq.albumId \notin DOMAIN albums
        /\ \A n \in DOMAIN photos :
              ObjectId(lastReq.albumId) \notin Range(photos[n].albums)

\* an album was deleted by the user who has uploaded two photos
C18_Witness ==
    /\ lastReq.op = "deleteAlbum"
    /\ lastReq.status = 200
    /\ lastReq.albumId \notin DOMAIN albums
    /\ Cardinality({n \in DOMAIN photos : photos[n].uploadedBy = lastReq.user}) >= 2

C20_Claim ==
    [][(lastReq'.op = "reprocess" /\ lastReq'.status = 200 /\ lastReq'.deriv = "derived")
        => LET got == GetPhoto(Store', lastReq'.photoId).resp.thumbnailS3Key
           IN /\ got = ThumbnailKeyOf(photos[lastReq'.photoId].s3Key)
              /\ got # photos[lastReq'.photoId].thumbnailS3Key]_vars

\* C21: the activity log is append-only: a request leaves every item of the
\* table as it was, and a logActivity call that succeeds adds one item, also
\* when the same user has logged an activity at the same clock reading.
C21_Claim ==
    [][/\ \A k \in DOMAIN activity : k \in DOMAIN activity' /\ activity'[k] = activity[k]
       /\ (\E i \in DOMAIN lastReq'.trace : lastReq'.trace[i] = Ev("activity.put", TRUE))
             => Cardinality(DOMAIN activity') = Cardinality(DOMAIN activity) + 1]_vars

\* the steps a processing status may take
StatusSteps ==
    {<<"pending", "processing">>, <<"processing", "completed">>,
     <<"processing", "failed">>}

\* C24: a Photo record starts as pending, and no request changes the
\* processing status of a record other than by one of the steps
\* pending -> processing, processing -> completed, processing -> failed.
C24_StatusTransitions ==
    [][\A id \in DOMAIN photos' :
          IF id \in DOMAIN photos
          THEN \/ photos'[id].processingStatus = photos[id].processingStatus
               \/ <<photos[id].processingStatus, photos'[id].processingStatus>>
                     \in StatusSteps
          ELSE photos'[id].processingStatus = "pending"]_vars

\* a reprocess has succeeded on a record
C24_Witness ==
    /\ lastReq.op = "reprocess"
    /\ lastReq.status = 200
    /\ lastReq.photoId \in DOMAIN photos
    /\ photos[lastReq.photoId].processingStatus = "pending"

\* C28: a reprocess whose derivation produces no thumbnail because the
\* processor reports a failure leaves the thumbnail key of the record as it was.
C28_Claim ==
    [][(lastReq'.op = "reprocess" /\ lastReq'.deriv = "failed")
        => photos'[lastReq'.photoId].thumbnailS3Key
              = photos[lastReq'.photoId].thumbnailS3Key]_vars

\* C29: when the deletion of the original is rejected during a photo delete,
\* the deletion of the photo's thumbnail, which is in the bucket, is still
\* attempted.
C29_Claim ==
    [][(/\ lastReq'.op = "delete"
        /\ \E i \in DOMAIN lastReq'.trace : lastReq'.trace[i] = Ev("s3.delete", FALSE)
        /\ ThumbnailKeyOf(photos[lastReq'.photoId].s3Key) \in DOMAIN blobs)
        => \E i \in DOMAIN lastReq'.trace : lastReq'.trace[i].op = "s3.deleteThumb"]_vars

\* C30: in every state the original key of every Photo record is the key of a
\* blob in the bucket.
C30_Claim ==
    \A id \in DOMAIN photos : photos[id].s3Key \in DOMAIN blobs

\* the ids of photoIds, in order, that are not members of the album
NewlyAdded(album, photoIds) ==
    LET NotMember(id) == CastObjectId(id) \notin Range(album.photos)
    IN SelectSeq(photoIds, NotMember)

\* C22: a successful addPhotos makes the first newly added photo the cover if
\* the album had no cover and a photo was newly added, and leaves the cover as
\* it was otherwise (in particular when the album had a cover); adding [P] to
\* an album without photos makes P the cover.
C22_CoverSetIfUnset ==
    \A user \in Users, id \in DOMAIN albums, photoIds \in PhotoIdLists :
        LET out == AddPhotosRoute(Store, user, id, photoIds)
            before == albums[id]
            after == out.albums[id]
            added == NewlyAdded(before, photoIds)
        IN out.resp.status = 200 =>
            /\ (Nullish(before.coverPhoto) /\ added # <<>>)
                  => after.coverPhoto = CastObjectId(added[1])
            /\ ~(Nullish(before.coverPhoto) /\ added # <<>>)
                  => after.coverPhoto = before.coverPhoto
            /\ (before.photos = <<>> /\ Len(photoIds) = 1)
                  => (after.coverPhoto = CastObjectId(photoIds[1])
                      /\ after.photos = <<CastObjectId(photoIds[1])>>)

\* an addPhotos has added a second photo to an album, whose cover is still
\* its first photo
C22_Witness ==
    /\ lastReq.op = "addPhotos"
    /\ lastReq.status = 200
    /\ lastReq.albumId \in DOMAIN albums
    /\ Len(albums[lastReq.albumId].photos) >= 2
    /\ albums[lastReq.albumId].coverPhoto = albums[lastReq.albumId].photos[1]

\* C23: in every state, every existing photo in an album's photo list was
\* uploaded by the album's creator.
C23_MembersOwnedByCreator ==
    \A a \in DOMAIN albums :
        \A i \in DOMAIN albums[a].photos :
            LET n == albums[a].photos[i].oid
            IN n \in DOMAIN photos => photos[n].uploadedBy = albums[a].createdBy

\* an album has a member while another user has a photo too, and an addPhotos
\* on it was refused
C23_Witness ==
    /\ lastReq.op = "addPhotos"
    /\ lastReq.status = 400
    /\ lastReq.albumId \in DOMAIN albums
    /\ albums[lastReq.albumId].photos # <<>>
    /\ albums[lastReq.albumId].photos[1].oid \in DOMAIN photos
    /\ \E m \in DOMAIN photos : photos[m].uploadedBy # albums[lastReq.albumId].createdBy

AllCompleted == \A slot \in Slots : inflight[slot] = Idle

\* C26: once overlapping addPhotos and deleteAlbum requests on an album have
\* all completed, no photo's album list refers to an album that is deleted.
C26_Claim ==
    AllCompleted =>
        \A n \in DOMAIN photos :
            \A i \in DOMAIN photos[n].albums : photos[n].albums[i].oid \in DOMAIN albums

\* C27: once overlapping addPhotos requests for one album and one photo have
\* all completed, the album's photo list holds the photo at most once and the
\* photo's album list holds the album at most once.
C27_Claim ==
    AllCompleted =>
        /\ \A a \in DOMAIN albums : NoDuplicates(albums[a].photos)
        /\ \A n \in DOMAIN photos : NoDuplicates(photos[n].albums)

====
